---- MODULE Spec2Model ----
(***************************************************************************)
(* Model of the transaction coordinator of src/services/sql.js:           *)
(* doInTransaction, the transaction primitives it calls, and the          *)
(* JavaScript run-to-completion scheduling it relies on.                  *)
(*                                                                         *)
(* A call chain is one logical request.  Chains interleave on one thread: *)
(* a job runs to its next await without interruption, the microtask queue *)
(* (promise reactions) is drained in FIFO order before the next event-loop *)
(* task (a new request, a completed database call) is taken.              *)
(***************************************************************************)
EXTENDS Integers, Sequences, FiniteSets, TLC

\* ------------------------------------------------------------------ bounds
NumChains == 3      \* concurrently running call chains
MaxCalls  == 3      \* top-level doInTransaction calls made in one run
MaxDepth  == 1      \* nested doInTransaction calls inside one work
MaxRows   == 2      \* rows in the result of one query
MaxFields == 2      \* fields of a record handed to insert

Chains == 1..NumChains

\* ------------------------------------------------------------- values
Null   == 0                       \* `let ret = null`
NoErr  == <<"none", 0>>
WorkErr(c) == <<"work", c>>       \* the error object thrown by c's work
WorkVal(c) == c                   \* the value returned by c's work
StmtErr(q, c) == <<q, c>>         \* wrap(): the error thrown for c's failed statement q

NoResult       == [kind |-> "none",   val |-> Null, err |-> NoErr]
Returned(v)    == [kind |-> "return", val |-> v,    err |-> NoErr]
Raised(e)      == [kind |-> "raise",  val |-> Null, err |-> e]

Job(c, k)           == [chain |-> c, kind |-> k]
Reaction(j, st, e)  == [chain |-> j.chain, kind |-> j.kind, state |-> st, err |-> e]

\* What one outermost call has done so far: statements issued, whether it
\* waited for the slot, the deepest nesting its work reached, the error that
\* escaped its work, the last of its statements that failed, whether the
\* slot was Active when it finished, and, until it finishes, whether its work
\* caught the failure of a nested call.
NoHist == [begins |-> 0, commits |-> 0, rollbacks |-> 0, waited |-> FALSE,
           deepest |-> 0, thrown |-> NoErr, failed |-> "none",
           activeAtEnd |-> FALSE, absorbed |-> FALSE]

\* ---------------------------------------------- values of the query helpers
\* A column value: null, the number n, or the string of n's digits.
NullCell   == <<"null", 0>>
Undefined  == <<"undefined", 0>>
IntCell(n) == <<"int", n>>
StrCell(n) == <<"str", n>>
Cells == {NullCell} \cup {IntCell(n) : n \in 1..MaxRows} \cup {StrCell(n) : n \in 1..MaxRows}

\* A result row with two columns, in column order; a result is a sequence of rows.
Rows == Cells \X Cells
NullRow == <<>>                   \* the null that stands for "no row"
Results == UNION {[1..n -> Rows] : n \in 0..MaxRows}

\* A record: its fields in insertion order, each with a value.
FieldNames == <<"noteId", "title", "content", "dateCreated">>
Fields == {FieldNames[i] : i \in 1..MaxFields}
Records ==
    {r \in UNION {[1..n -> Fields \X {NullCell, IntCell(1)}] : n \in 0..MaxFields} :
        \A i, j \in DOMAIN r : r[i][1] = r[j][1] => i = j}

NoCall == [op |-> "none", table |-> "", rec |-> <<>>, replace |-> FALSE, rows |-> <<>>]
InsertCall(t, r, b) == [op |-> "insert", table |-> t, rec |-> r, replace |-> b, rows |-> <<>>]
RowsCall(o, rs)     == [op |-> o, table |-> "", rec |-> <<>>, replace |-> FALSE, rows |-> rs]

NoOut        == [kind |-> "none",   val |-> Undefined, map |-> <<>>]
QReturned(v) == [kind |-> "return", val |-> v,         map |-> <<>>]
QMap(m)      == [kind |-> "return", val |-> Undefined, map |-> m]
QRaised      == [kind |-> "raise",  val |-> Undefined, map |-> <<>>]

VARIABLES
    transactionActive,   \* sql.js:122
    transactionPromise,  \* sql.js:123  [state, err, reactions]
    isInTransaction,     \* cls.namespace 'isInTransaction', one flag per chain
    pc,                  \* where each chain's outermost call stands
    depth,               \* nested doInTransaction frames on the chain's stack
    owns,                \* the chain's bottom frame is the owning executor
    ret,                 \* sql.js:134
    caught,              \* `e` of the catch clause, sql.js:151
    raised,              \* error propagating through the chain's work
    result,              \* what the caller of the outermost call observed
    mq,                  \* microtask queue: promise reactions ready to run
    calls,               \* top-level calls made so far
    waitq,               \* chains that found the slot Active, in arrival order
    hist,                \* per call: statements issued, failures, waited
    unterminated,        \* chains whose BEGIN was issued and whose COMMIT /
                         \* ROLLBACK has not completed
    inflight,            \* chains whose plain statement is with the database handle
    qcall,               \* the query helper being called, with its arguments
    qpc,                 \* where that call stands
    dbCalls,             \* the statements handed to dbConnection, in order
    errLog,              \* the messages given to log.error, in order
    qout                 \* what the caller of the helper observed

txvars == <<transactionActive, transactionPromise, isInTransaction, pc, depth, owns,
            ret, caught, raised, result, mq, calls, waitq, hist, unterminated, inflight>>

qvars == <<qcall, qpc, dbCalls, errLog, qout>>

vars == <<txvars, qvars>>

NullPromise == [state |-> "null", err |-> NoErr, reactions |-> <<>>]

TxInit ==
    /\ transactionActive = FALSE
    /\ transactionPromise = NullPromise
    /\ isInTransaction = [c \in Chains |-> FALSE]
    /\ pc = [c \in Chains |-> "idle"]
    /\ depth = [c \in Chains |-> 0]
    /\ owns = [c \in Chains |-> FALSE]
    /\ ret = [c \in Chains |-> Null]
    /\ caught = [c \in Chains |-> NoErr]
    /\ raised = [c \in Chains |-> NoErr]
    /\ result = [c \in Chains |-> NoResult]
    /\ mq = <<>>
    /\ calls = 0
    /\ waitq = <<>>
    /\ hist = [c \in Chains |-> NoHist]
    /\ unterminated = {}
    /\ inflight = {}

\* no query helper is being called
QIdle ==
    /\ qcall = NoCall
    /\ qpc = "idle"
    /\ dbCalls = <<>>
    /\ errLog = <<>>
    /\ qout = NoOut

\* ------------------------------------------------------------ helpers
RECURSIVE Without(_, _)
Without(s, c) ==
    IF s = <<>> THEN <<>>
    ELSE IF Head(s) = c THEN Without(Tail(s), c)
    ELSE <<Head(s)>> \o Without(Tail(s), c)

RECURSIVE Settle(_, _)
\* the reactions rs of a promise that settles as p become ready jobs, in
\* registration order
Settle(rs, p) ==
    IF rs = <<>> THEN <<>>
    ELSE <<Reaction(Head(rs), p.state, p.err)>> \o Settle(Tail(rs), p)

\* mutation of SetFlag: the flag is not set when the transaction is opened
SetFlagMissing(c) == isInTransaction

\* cls.namespace.set('isInTransaction', true), sql.js:140
SetFlag(c) == [isInTransaction EXCEPT ![c] = TRUE]

\* mutation of ClearFlag: no finally clause
ClearFlagMissing(c) == isInTransaction

\* cls.namespace.set('isInTransaction', false) of the finally clause, sql.js:161
ClearFlag(c) == [isInTransaction EXCEPT ![c] = FALSE]

\* mutation of LoopCond: `if (transactionActive)` in place of the loop
LoopCondIf(woken) == ~woken /\ transactionActive

\* the condition of `while (transactionActive)`, sql.js:130; woken: the chain
\* has been resumed from `await transactionPromise` and tests again
LoopCond(woken) == transactionActive

\* mutation of AddReaction: the latest arrival is served first
AddReactionLifo(rs, j) == <<j>> \o rs

\* a promise's reactions run in the order in which they were registered
AddReaction(rs, j) == Append(rs, j)

\* `await transactionPromise` (sql.js:131, 166) by job j, the microtask queue
\* being q: registers a reaction on a pending promise, becomes ready at once on
\* a settled one
Await(j, q) ==
    IF transactionPromise.state = "pending"
    THEN /\ transactionPromise' =
                [transactionPromise EXCEPT !.reactions = AddReaction(@, j)]
         /\ mq' = q
    ELSE /\ transactionPromise' = transactionPromise
         /\ mq' = Append(q, Reaction(j,
                    IF transactionPromise.state = "null" THEN "fulfilled"
                    ELSE transactionPromise.state,
                    transactionPromise.err))

\* resolve() of sql.js:149
Resolve == [state |-> "fulfilled", err |-> NoErr, reactions |-> <<>>]

\* mutation of Reject: the promise is rejected with a fresh error, not with e
RejectFresh(e) == [state |-> "rejected", err |-> <<"ROLLBACK", e[2]>>, reactions |-> <<>>]

\* reject(e) of sql.js:158
Reject(e) == [state |-> "rejected", err |-> e, reactions |-> <<>>]

\* mutation of ReturnValue: the result of func is dropped
ReturnValueNull(c) == Null

\* `return ret`, sql.js:169
ReturnValue(c) == ret[c]

\* sql.js:130-142 and 165-167, run by chain c with h its call's history so far:
\* wait while the slot is Active; otherwise take it, set the flag, issue BEGIN
\* (the executor runs synchronously up to `await beginTransaction()`), store
\* the new promise and await it.
AcquireOrWait(c, woken, q, h) ==
    IF LoopCond(woken)
    THEN /\ Await(Job(c, "waiter"), q)
         /\ pc' = [pc EXCEPT ![c] = "waiting"]
         /\ waitq' = IF woken THEN waitq ELSE Append(waitq, c)
         /\ hist' = [hist EXCEPT ![c] = [h EXCEPT !.waited = TRUE]]
         /\ UNCHANGED <<transactionActive, isInTransaction, owns, ret, unterminated>>
    ELSE /\ transactionActive' = TRUE
         /\ isInTransaction' = SetFlag(c)
         /\ transactionPromise' = [state |-> "pending", err |-> NoErr,
                                   reactions |-> AddReaction(<<>>, Job(c, "owner"))]
         /\ mq' = q
         /\ pc' = [pc EXCEPT ![c] = "begin"]
         /\ owns' = [owns EXCEPT ![c] = TRUE]
         /\ ret' = [ret EXCEPT ![c] = Null]
         /\ waitq' = Without(waitq, c)
         /\ hist' = [hist EXCEPT ![c] = [h EXCEPT !.begins = @ + 1]]
         /\ unterminated' = unterminated \cup {c}

\* ------------------------------------------------------------ actions
\* A chain calls doInTransaction(func) from outside any work (sql.js:125-167).
Call(c) ==
    /\ mq = <<>>
    /\ UNCHANGED <<qvars, inflight>>
    /\ pc[c] \in {"idle", "done"}
    /\ calls < MaxCalls
    /\ calls' = calls + 1
    /\ result' = [result EXCEPT ![c] = NoResult]
    /\ caught' = [caught EXCEPT ![c] = NoErr]
    /\ raised' = [raised EXCEPT ![c] = NoErr]
    /\ IF isInTransaction[c]
       THEN \* sql.js:127, `return await func()`
            /\ pc' = [pc EXCEPT ![c] = "work"]
            /\ depth' = [depth EXCEPT ![c] = 1]
            /\ owns' = [owns EXCEPT ![c] = FALSE]
            /\ hist' = [hist EXCEPT ![c] = NoHist]
            /\ UNCHANGED <<transactionActive, transactionPromise, isInTransaction,
                           ret, mq, waitq, unterminated>>
       ELSE /\ depth' = [depth EXCEPT ![c] = 0]
            /\ AcquireOrWait(c, FALSE, mq, NoHist)

\* The work of chain c calls doInTransaction(func) again (sql.js:125-132).
NestedCall(c) ==
    /\ mq = <<>>
    /\ UNCHANGED <<qvars, inflight>>
    /\ pc[c] = "work"
    /\ raised[c] = NoErr
    /\ depth[c] < MaxDepth
    /\ depth' = [depth EXCEPT ![c] = @ + 1]
    /\ UNCHANGED <<calls, result, caught, raised>>
    /\ IF isInTransaction[c]
       THEN \* sql.js:127, `return await func()`
            /\ hist' = [hist EXCEPT ![c].deepest = IF @ > depth[c] THEN @ ELSE depth[c] + 1]
            /\ UNCHANGED <<transactionActive, transactionPromise, isInTransaction, pc,
                           owns, ret, mq, waitq, unterminated>>
       ELSE AcquireOrWait(c, FALSE, mq, hist[c])

\* The func of a joined call returns; `return await func()` hands the value on
\* (sql.js:127).  With no owning frame below, it is the chain's outermost call.
NestedReturn(c) ==
    /\ mq = <<>>
    /\ UNCHANGED <<qvars, inflight>>
    /\ pc[c] = "work"
    /\ raised[c] = NoErr
    /\ depth[c] > 0
    /\ depth' = [depth EXCEPT ![c] = @ - 1]
    /\ IF depth[c] = 1 /\ ~owns[c]
       THEN /\ pc' = [pc EXCEPT ![c] = "done"]
            /\ result' = [result EXCEPT ![c] = Returned(WorkVal(c))]
       ELSE UNCHANGED <<pc, result>>
    /\ UNCHANGED <<transactionActive, transactionPromise, isInTransaction, owns, ret,
                   caught, raised, mq, calls, waitq, hist, unterminated>>

\* The work throws at its current nesting depth.
WorkThrow(c) ==
    /\ mq = <<>>
    /\ UNCHANGED <<qvars, inflight>>
    /\ pc[c] = "work"
    /\ raised[c] = NoErr
    /\ raised' = [raised EXCEPT ![c] = WorkErr(c)]
    /\ UNCHANGED <<transactionActive, transactionPromise, isInTransaction, pc, depth,
                   owns, ret, caught, result, mq, calls, waitq, hist, unterminated>>

\* mutation of NestedRaise: the joined call rolls back on the failure of its func
NestedRaiseRollingBack(c, isCaught) ==
    /\ mq = <<>>
    /\ UNCHANGED <<qvars, inflight>>
    /\ pc[c] = "work"
    /\ raised[c] # NoErr
    /\ depth[c] > 0
    /\ depth' = [depth EXCEPT ![c] = @ - 1]
    /\ IF depth[c] = 1 /\ ~owns[c]
       THEN /\ ~isCaught
            /\ pc' = [pc EXCEPT ![c] = "done"]
            /\ result' = [result EXCEPT ![c] = Raised(raised[c])]
            /\ raised' = [raised EXCEPT ![c] = NoErr]
       ELSE /\ raised' = [raised EXCEPT ![c] = IF isCaught THEN NoErr ELSE @]
            /\ UNCHANGED <<pc, result>>
    /\ hist' = [hist EXCEPT ![c].absorbed = @ \/ isCaught, ![c].rollbacks = @ + 1]
    /\ UNCHANGED <<transactionActive, transactionPromise, isInTransaction, owns, ret,
                   caught, mq, calls, waitq, unterminated>>

\* A joined call passes the failure of its func to the enclosing work
\* (sql.js:127), which catches it (isCaught) or lets it escape.
NestedRaise(c, isCaught) ==
    /\ mq = <<>>
    /\ UNCHANGED <<qvars, inflight>>
    /\ pc[c] = "work"
    /\ raised[c] # NoErr
    /\ depth[c] > 0
    /\ depth' = [depth EXCEPT ![c] = @ - 1]
    /\ IF depth[c] = 1 /\ ~owns[c]
       THEN /\ ~isCaught
            /\ pc' = [pc EXCEPT ![c] = "done"]
            /\ result' = [result EXCEPT ![c] = Raised(raised[c])]
            /\ raised' = [raised EXCEPT ![c] = NoErr]
       ELSE /\ raised' = [raised EXCEPT ![c] = IF isCaught THEN NoErr ELSE @]
            /\ UNCHANGED <<pc, result>>
    /\ hist' = [hist EXCEPT ![c].absorbed = @ \/ isCaught]
    /\ UNCHANGED <<transactionActive, transactionPromise, isInTransaction, owns, ret,
                   caught, mq, calls, waitq, unterminated>>

\* sql.js:152-154: the catch clause logs and issues ROLLBACK
IssueRollback(c, e) ==
    /\ caught' = [caught EXCEPT ![c] = e]
    /\ pc' = [pc EXCEPT ![c] = "rollback"]

\* BEGIN completes (sql.js:142): func() is called, or the catch clause is entered.
BeginDone(c, ok) ==
    /\ mq = <<>>
    /\ UNCHANGED <<qvars, inflight>>
    /\ pc[c] = "begin"
    /\ IF ok
       THEN /\ pc' = [pc EXCEPT ![c] = "work"]
            /\ UNCHANGED <<caught, hist>>
       ELSE /\ IssueRollback(c, StmtErr("BEGIN", c))
            /\ hist' = [hist EXCEPT ![c].rollbacks = @ + 1, ![c].failed = "BEGIN"]
    /\ UNCHANGED <<transactionActive, transactionPromise, isInTransaction, depth, owns,
                   ret, raised, result, mq, calls, waitq, unterminated>>

\* mutation of WorkReturn: the slot is marked Idle before COMMIT is awaited
WorkReturnReleasing(c) ==
    /\ mq = <<>>
    /\ UNCHANGED <<qvars, inflight>>
    /\ pc[c] = "work"
    /\ raised[c] = NoErr
    /\ depth[c] = 0
    /\ owns[c]
    /\ ret' = [ret EXCEPT ![c] = WorkVal(c)]
    /\ pc' = [pc EXCEPT ![c] = "commit"]
    /\ hist' = [hist EXCEPT ![c].commits = @ + 1]
    /\ transactionActive' = FALSE
    /\ UNCHANGED <<transactionPromise, isInTransaction, depth, owns,
                   caught, raised, result, mq, calls, waitq, unterminated>>

\* The outermost func of an owning call returns (sql.js:144-146): its value is
\* kept in ret and COMMIT is issued.
WorkReturn(c) ==
    /\ mq = <<>>
    /\ UNCHANGED <<qvars, inflight>>
    /\ pc[c] = "work"
    /\ raised[c] = NoErr
    /\ depth[c] = 0
    /\ owns[c]
    /\ ret' = [ret EXCEPT ![c] = WorkVal(c)]
    /\ pc' = [pc EXCEPT ![c] = "commit"]
    /\ hist' = [hist EXCEPT ![c].commits = @ + 1]
    /\ UNCHANGED <<transactionActive, transactionPromise, isInTransaction, depth, owns,
                   caught, raised, result, mq, calls, waitq, unterminated>>

\* A failure escapes the outermost func of an owning call (sql.js:144, 151-154).
WorkRaise(c) ==
    /\ mq = <<>>
    /\ UNCHANGED <<qvars, inflight>>
    /\ pc[c] = "work"
    /\ raised[c] # NoErr
    /\ depth[c] = 0
    /\ owns[c]
    /\ IssueRollback(c, raised[c])
    /\ raised' = [raised EXCEPT ![c] = NoErr]
    /\ hist' = [hist EXCEPT ![c].rollbacks = @ + 1, ![c].thrown = raised[c]]
    /\ UNCHANGED <<transactionActive, transactionPromise, isInTransaction, depth, owns,
                   ret, result, mq, calls, waitq, unterminated>>

\* COMMIT completes (sql.js:146-149, 151-154, 160-162).
CommitDone(c, ok) ==
    /\ mq = <<>>
    /\ UNCHANGED <<qvars, inflight>>
    /\ pc[c] = "commit"
    /\ IF ok
       THEN /\ transactionActive' = FALSE
            /\ transactionPromise' = Resolve
            /\ mq' = Settle(transactionPromise.reactions, Resolve)
            /\ isInTransaction' = ClearFlag(c)
            /\ pc' = [pc EXCEPT ![c] = "settled"]
            /\ owns' = [owns EXCEPT ![c] = FALSE]
            /\ unterminated' = unterminated \ {c}
            /\ UNCHANGED <<caught, hist>>
       ELSE /\ IssueRollback(c, StmtErr("COMMIT", c))
            /\ hist' = [hist EXCEPT ![c].rollbacks = @ + 1, ![c].failed = "COMMIT"]
            /\ UNCHANGED <<transactionActive, transactionPromise, mq, isInTransaction,
                           owns, unterminated>>
    /\ UNCHANGED <<depth, ret, raised, result, calls, waitq>>

\* ROLLBACK completes (sql.js:154-162).  When it fails, the error leaves the
\* catch clause: the finally clause runs, the executor's own promise rejects
\* with nobody listening, and neither line 156 nor line 158 is reached.
RollbackDone(c, ok) ==
    /\ mq = <<>>
    /\ UNCHANGED <<qvars, inflight>>
    /\ pc[c] = "rollback"
    /\ isInTransaction' = ClearFlag(c)
    /\ owns' = [owns EXCEPT ![c] = FALSE]
    /\ IF ok
       THEN /\ transactionActive' = FALSE
            /\ transactionPromise' = Reject(caught[c])
            /\ mq' = Settle(transactionPromise.reactions, Reject(caught[c]))
            /\ pc' = [pc EXCEPT ![c] = "settled"]
            /\ unterminated' = unterminated \ {c}
            /\ hist' = hist
       ELSE /\ pc' = [pc EXCEPT ![c] = "stranded"]
            /\ hist' = [hist EXCEPT ![c].failed = "ROLLBACK"]
            /\ UNCHANGED <<transactionActive, transactionPromise, mq, unterminated>>
    /\ UNCHANGED <<depth, ret, caught, raised, result, calls, waitq>>

\* mutation of Issue: the statement is held back while a transaction is Active
IssueWhenIdle(c) == IF transactionActive THEN inflight ELSE inflight \cup {c}

\* wrap hands the statement to the handle, `func(dbConnection)`, sql.js:111
Issue(c) == inflight \cup {c}

\* A chain that is outside any transaction calls a query helper (execute,
\* getRows, getValue, ...; sql.js:99-101, 107-111): wrap calls the driver in
\* the same job, whatever the state of the slot.
Execute(c) ==
    /\ mq = <<>>
    /\ UNCHANGED qvars
    /\ pc[c] = "idle"
    /\ calls < MaxCalls
    /\ calls' = calls + 1
    /\ pc' = [pc EXCEPT ![c] = "query"]
    /\ inflight' = Issue(c)
    /\ UNCHANGED <<transactionActive, transactionPromise, isInTransaction, depth, owns,
                   ret, caught, raised, result, mq, waitq, hist, unterminated>>

\* The driver call of the helper settles and the helper returns or throws to
\* its caller (sql.js:111-119).
ExecuteDone(c) ==
    /\ mq = <<>>
    /\ UNCHANGED qvars
    /\ pc[c] = "query"
    /\ c \in inflight
    /\ inflight' = inflight \ {c}
    /\ pc' = [pc EXCEPT ![c] = "idle"]
    /\ UNCHANGED <<transactionActive, transactionPromise, isInTransaction, depth, owns,
                   ret, caught, raised, result, mq, calls, waitq, hist, unterminated>>

\* The first ready promise reaction runs: the owning call resumes after
\* `await transactionPromise` at sql.js:166 and returns ret or throws the
\* rejection; a waiting call resumes at sql.js:131, where a rejection is
\* thrown out of doInTransaction and a fulfilment re-enters the loop.
RunMicrotask ==
    /\ mq # <<>>
    /\ UNCHANGED <<qvars, inflight>>
    /\ LET r == Head(mq)
           c == r.chain
       IN  IF r.kind = "owner" \/ r.state = "rejected"
           THEN /\ pc' = [pc EXCEPT ![c] = "done"]
                /\ result' = [result EXCEPT ![c] =
                        IF r.state = "rejected" THEN Raised(r.err)
                        ELSE Returned(ReturnValue(c))]
                /\ hist' = [hist EXCEPT ![c].activeAtEnd = transactionActive,
                                         ![c].absorbed = FALSE]
                /\ waitq' = Without(waitq, c)
                /\ mq' = Tail(mq)
                /\ ret' = [ret EXCEPT ![c] = Null]
                /\ caught' = [caught EXCEPT ![c] = NoErr]
                /\ UNCHANGED <<transactionActive, transactionPromise, isInTransaction,
                               owns, unterminated>>
           ELSE /\ AcquireOrWait(c, TRUE, Tail(mq), hist[c])
                /\ UNCHANGED <<result, caught>>
    /\ UNCHANGED <<depth, raised, calls>>

TxNext ==
    \/ \E c \in Chains : Call(c)
    \/ \E c \in Chains : NestedCall(c)
    \/ \E c \in Chains : NestedReturn(c)
    \/ \E c \in Chains : WorkThrow(c)
    \/ \E c \in Chains, k \in BOOLEAN : NestedRaise(c, k)
    \/ \E c \in Chains, ok \in BOOLEAN : BeginDone(c, ok)
    \/ \E c \in Chains : WorkReturn(c)
    \/ \E c \in Chains : WorkRaise(c)
    \/ \E c \in Chains, ok \in BOOLEAN : CommitDone(c, ok)
    \/ \E c \in Chains, ok \in BOOLEAN : RollbackDone(c, ok)
    \/ \E c \in Chains : Execute(c)
    \/ \E c \in Chains : ExecuteDone(c)
    \/ RunMicrotask

\* The transaction coordinator: no query helper call is in progress.
Init == TxInit /\ QIdle

Next == TxNext

Spec == Init /\ [][Next]_vars

\* ------------------------------------------------------- query helpers
\* Object.keys(rec) and Object.values(rec), sql.js:13, 24
Keys(rec)      == [i \in DOMAIN rec |-> rec[i][1]]
ObjValues(rec) == [i \in DOMAIN rec |-> rec[i][2]]

RECURSIVE Join(_, _)
\* Array.prototype.join as a sequence of pieces, sql.js:19-20
Join(xs, sep) ==
    IF Len(xs) <= 1 THEN xs
    ELSE <<Head(xs), sep>> \o Join(Tail(xs), sep)

\* keys.map(p => "?").join(", "), sql.js:20
QuestionMarks(keys) == Join([i \in DOMAIN keys |-> "?"], ", ")

\* the text of the statement, sql.js:22
InsertQuery(table, rec, replace) ==
    <<"INSERT ", IF replace THEN "OR REPLACE" ELSE "", " INTO ", table, "(">>
        \o Join(Keys(rec), ", ") \o <<") VALUES (">>
        \o QuestionMarks(Keys(rec)) \o <<")">>

\* mutation of IsEmptyRecord: the guard is missing
IsEmptyRecordNever(rec) == FALSE

\* `keys.length === 0`, sql.js:14
IsEmptyRecord(rec) == Len(Keys(rec)) = 0

\* mutation of getRowOrNull: `all.length > 1`
getRowOrNullOffByOne(all) == IF Len(all) > 1 THEN all[1] ELSE NullRow

\* getRowOrNull of sql.js:49-53, on the rows getRows delivered
getRowOrNull(all) == IF Len(all) > 0 THEN all[1] ELSE NullRow

\* getValue of sql.js:55-63: row[Object.keys(row)[0]] is the row's first column
getValue(all) ==
    LET row == getRowOrNull(all)
    IN  IF row = NullRow THEN NullCell ELSE row[1]

\* the property key under which a JavaScript object stores a value: its string
\* form, so the number n and the string of n's digits are one key, "null" another
ToKey(cell) == cell[2]

\* mutation of MapSet: a key already present keeps its value
MapSetKeep(map, k, v) ==
    [x \in DOMAIN map \cup {k} |-> IF x \in DOMAIN map THEN map[x] ELSE v]

\* `map[k] = v`, sql.js:76
MapSet(map, k, v) == [x \in DOMAIN map \cup {k} |-> IF x = k THEN v ELSE map[x]]

RECURSIVE MapRows(_, _)
\* the loop of sql.js:73-77 over the rows still to visit
MapRows(map, results) ==
    IF results = <<>> THEN map
    ELSE MapRows(MapSet(map, ToKey(Head(results)[1]), Head(results)[2]), Tail(results))

\* getMap of sql.js:69-80, on the rows getRows delivered
getMap(results) == MapRows(<<>>, results)

\* A helper is called with arguments drawn from the bounded sets.
QInit ==
    /\ TxInit
    /\ qcall \in {InsertCall(t, r, b) : t \in {"notes", "sync"}, r \in Records, b \in BOOLEAN}
                \cup {RowsCall(o, rs) : o \in {"getValue", "getMap"}, rs \in Results}
    /\ qpc = "ready"
    /\ dbCalls = <<>>
    /\ errLog = <<>>
    /\ qout = NoOut

\* insert(table_name, rec, replace) up to its await, sql.js:12-24
Insert ==
    /\ qpc = "ready"
    /\ qcall.op = "insert"
    /\ IF IsEmptyRecord(qcall.rec)
       THEN /\ errLog' = Append(errLog, "Can't insert empty object into table")
            /\ qout' = QReturned(Undefined)
            /\ qpc' = "done"
            /\ UNCHANGED dbCalls
       ELSE /\ dbCalls' = Append(dbCalls,
                    [method |-> "run",
                     query |-> InsertQuery(qcall.table, qcall.rec, qcall.replace),
                     params |-> ObjValues(qcall.rec)])
            /\ qpc' = "awaiting"
            /\ UNCHANGED <<errLog, qout>>
    /\ UNCHANGED <<qcall, txvars>>

\* getValue / getMap up to the await of getRows, sql.js:56, 50, 71, 65-67
GetRows ==
    /\ qpc = "ready"
    /\ qcall.op \in {"getValue", "getMap"}
    /\ dbCalls' = Append(dbCalls, [method |-> "all", query |-> <<"SELECT">>, params |-> <<>>])
    /\ qpc' = "awaiting"
    /\ UNCHANGED <<qcall, errLog, qout, txvars>>

\* The driver call made by wrap settles (sql.js:107-120): a failure is logged
\* and thrown on; otherwise the helper computes its result (sql.js:26, 52-62,
\* 73-79).
Settled(ok) ==
    /\ qpc = "awaiting"
    /\ qpc' = "done"
    /\ IF ok
       THEN /\ qout' = CASE qcall.op = "insert"   -> QReturned(IntCell(1))
                         [] qcall.op = "getValue" -> QReturned(getValue(qcall.rows))
                         [] qcall.op = "getMap"   -> QMap(getMap(qcall.rows))
            /\ UNCHANGED errLog
       ELSE /\ errLog' = Append(errLog, "Error executing query")
            /\ qout' = QRaised
    /\ UNCHANGED <<qcall, dbCalls, txvars>>

QNext ==
    \/ Insert
    \/ GetRows
    \/ \E ok \in BOOLEAN : Settled(ok)

QSpec == QInit /\ [][QNext]_vars

\* ------------------------------------------------------------ properties
Finished(c)  == pc[c] = "done"
HasJob(d)    == \E i \in DOMAIN mq : mq[i].chain = d

\* C1: at no time are two transactions unterminated, i.e. no BEGIN is issued
\* while an earlier BEGIN has not had its COMMIT or ROLLBACK complete, whatever
\* the outcome of each work and each statement.
MutualExclusion == Cardinality(unterminated) <= 1

\* a chain that had to wait has issued its BEGIN after the previous
\* transaction ended, while another chain is still waiting
MutualExclusionWitness ==
    \E c, d \in Chains :
        /\ pc[c] = "begin" /\ hist[c].waited /\ unterminated = {c}
        /\ pc[d] = "waiting"

\* C2: a call made from within the work of the chain's own open transaction
\* runs inline: while nested frames are on the stack the chain is running its
\* work (it never waits for the slot) and has issued its one BEGIN and nothing
\* else; a nest whose work succeeded issued exactly one BEGIN and one COMMIT
\* and no ROLLBACK.
Reentrancy ==
    \A c \in Chains :
        /\ (depth[c] > 0 /\ owns[c]) =>
                /\ pc[c] = "work"
                /\ isInTransaction[c]
                /\ hist[c].begins = 1 /\ hist[c].commits = 0 /\ hist[c].rollbacks = 0
        /\ (result[c].kind = "return" /\ hist[c].deepest > 0) =>
                hist[c].begins = 1 /\ hist[c].commits = 1 /\ hist[c].rollbacks = 0

\* a call whose work nested to the full depth has returned normally
ReentrancyWitness ==
    \E c \in Chains :
        Finished(c) /\ result[c].kind = "return" /\ hist[c].deepest = MaxDepth

\* C3: when the work of an owning call threw and no statement failed, the
\* finished call has issued one ROLLBACK and no COMMIT, the slot was Idle when
\* it finished, and its caller observed the very error the work threw.
WorkFailureRollsBack ==
    \A c \in Chains :
        (Finished(c) /\ hist[c].thrown # NoErr /\ hist[c].failed = "none") =>
            /\ hist[c].rollbacks = 1
            /\ hist[c].commits = 0
            /\ ~hist[c].activeAtEnd
            /\ result[c] = Raised(WorkErr(c))

WorkFailureRollsBackWitness ==
    \E c \in Chains :
        /\ Finished(c) /\ hist[c].thrown = WorkErr(c) /\ hist[c].failed = "none"
        /\ result[c].kind = "raise"

\* C4 (as claimed): once the ROLLBACK of a transaction has failed, the slot is
\* Idle again.
SlotReleasedAfterRollbackFailure ==
    \A c \in Chains : hist[c].failed = "ROLLBACK" => ~transactionActive

\* C5 (as claimed): when work threw and ROLLBACK failed, the owning call is
\* about to raise, or has raised, the error the work threw.
OriginalErrorAfterRollbackFailure ==
    \A c \in Chains :
        (hist[c].failed = "ROLLBACK" /\ hist[c].thrown # NoErr) =>
            \/ result[c] = Raised(hist[c].thrown)
            \/ \E i \in DOMAIN mq :
                    mq[i] = Reaction(Job(c, "owner"), "rejected", hist[c].thrown)

\* C6 (as claimed): a chain that waited for the slot and whose call has
\* finished has issued its own BEGIN, whether the transaction before it
\* committed or rolled back.
WaiterProceeds ==
    \A c \in Chains : (Finished(c) /\ hist[c].waited) => hist[c].begins = 1

\* C7: the slot is granted to waiting chains in arrival order: a chain that
\* leaves the wait to issue its BEGIN is the earliest arrival still waiting.
FifoService ==
    [][\A c \in Chains :
          (pc[c] = "waiting" /\ pc'[c] = "begin") => Head(waitq) = c]_vars

\* the earlier of two waiting chains has been granted the slot, the later waits
FifoServiceWitness ==
    \E c, d \in Chains :
        /\ pc[c] = "begin" /\ hist[c].waited
        /\ pc[d] = "waiting" /\ waitq = <<d>>
        /\ calls = NumChains

\* C8: once the promise of an outermost call is settled, and when the call has
\* returned or raised, the chain's context flag is Outside.
FlagRestored ==
    \A c \in Chains : pc[c] \in {"settled", "done"} => ~isInTransaction[c]

\* calls have finished on every path: returned, raised the work's error,
\* raised a statement's error, raised after waiting
FlagRestoredWitness ==
    /\ \E c \in Chains : Finished(c) /\ result[c].kind = "return"
    /\ \E c \in Chains : Finished(c) /\ hist[c].failed \in {"BEGIN", "COMMIT"}

\* C9: a call whose work and COMMIT succeeded issued one COMMIT and no
\* ROLLBACK and returns the value its work returned; the slot is Idle when it
\* returns; and when its promise is settled every waiting chain has been
\* released (its reaction is ready to run).
CommitSuccess ==
    \A c \in Chains :
        /\ (Finished(c) /\ result[c].kind = "return") =>
                /\ hist[c].begins = 1 /\ hist[c].commits = 1 /\ hist[c].rollbacks = 0
                /\ result[c] = Returned(WorkVal(c))
                /\ ~hist[c].activeAtEnd
        /\ (pc[c] = "settled" /\ transactionPromise.state = "fulfilled") =>
                /\ ~transactionActive
                /\ \A d \in Chains : pc[d] = "waiting" => HasJob(d)

\* a call has returned its work's value after other chains waited for it
CommitSuccessWitness ==
    \E c, d \in Chains :
        /\ Finished(c) /\ result[c] = Returned(WorkVal(c)) /\ hist[c].commits = 1
        /\ hist[d].waited /\ hist[d].begins = 1

\* C10 (as claimed): a call one of whose BEGIN, COMMIT or ROLLBACK statements
\* failed neither returns normally nor is left waiting for ever.
StatementErrorRethrown ==
    \A c \in Chains :
        hist[c].failed # "none" => (result[c].kind # "return" /\ pc[c] # "stranded")

\* the interval between the BEGIN of c's transaction and the completion of
\* its COMMIT or ROLLBACK
InTransaction(c) == owns[c] /\ pc[c] \in {"begin", "work", "commit", "rollback"}

\* C14: while a transaction is between its BEGIN and the completion of its
\* COMMIT or ROLLBACK the slot is Active and its promise is pending (no waiter
\* has been released).
SlotHeld ==
    \A c \in Chains :
        InTransaction(c) => (transactionActive /\ transactionPromise.state = "pending")

\* a ROLLBACK after a failed COMMIT is in flight while another chain waits
SlotHeldWitness ==
    \E c, d \in Chains :
        /\ pc[c] = "rollback" /\ hist[c].failed = "COMMIT" /\ transactionActive
        /\ pc[d] = "waiting"

\* C15 (as claimed): the flag of a chain is true exactly when the chain is in
\* a call that has issued BEGIN and has issued neither COMMIT nor ROLLBACK.
FlagUntilCommitIssued ==
    \A c \in Chains :
        isInTransaction[c] <=> (owns[c] /\ pc[c] \in {"begin", "work"})

\* C15 (amended): the flag of a chain is true exactly when the chain is in an
\* owning call that has issued BEGIN and whose terminating statement (the
\* COMMIT that succeeds, or the ROLLBACK) has not yet completed.
FlagWhileInTransaction ==
    \A c \in Chains : isInTransaction[c] <=> InTransaction(c)

\* COMMIT has been issued and has not completed: the flag is still Inside
FlagWhileInTransactionWitness ==
    \E c \in Chains : pc[c] = "commit" /\ isInTransaction[c]

\* C16: a failure travelling through the work of a chain is the error thrown,
\* unchanged, and no ROLLBACK or COMMIT has been issued while it travels; at
\* most one ROLLBACK is issued per call, and only after a failure escaped the
\* outermost work or a statement failed; a call whose work caught the failure
\* of a nested call and then ended without failure has committed: its promise
\* is fulfilled and ret holds the value of its work.
NestedFailure ==
    \A c \in Chains :
        /\ (pc[c] = "work" /\ raised[c] # NoErr) =>
                /\ raised[c] = WorkErr(c)
                /\ hist[c].rollbacks = 0 /\ hist[c].commits = 0
        /\ hist[c].rollbacks <= 1
        /\ hist[c].rollbacks = 1 => (hist[c].thrown # NoErr \/ hist[c].failed # "none")
        /\ (pc[c] = "settled" /\ hist[c].absorbed /\ hist[c].thrown = NoErr
                /\ hist[c].failed = "none") =>
                /\ transactionPromise.state = "fulfilled"
                /\ ret[c] = WorkVal(c)
                /\ hist[c].commits = 1 /\ hist[c].rollbacks = 0

\* a call whose work caught the failure of a nested call has committed
NestedFailureWitness ==
    \E c \in Chains :
        pc[c] = "settled" /\ hist[c].absorbed /\ transactionPromise.state = "fulfilled"

\* C17: a query helper called by a chain outside any transaction has its
\* statement with the database handle at once, whatever the state of the
\* slot: the chain is never among those waiting for the slot.
StatementsNotSerialized ==
    \A c \in Chains :
        pc[c] = "query" =>
            /\ c \in inflight
            /\ \A i \in DOMAIN waitq : waitq[i] # c
            /\ \A i \in DOMAIN transactionPromise.reactions :
                    transactionPromise.reactions[i].chain # c

\* the statement of one chain is with the handle between the BEGIN and the
\* COMMIT or ROLLBACK of another chain's transaction
StatementsNotSerializedWitness ==
    \E c, d \in Chains :
        /\ pc[c] = "query" /\ c \in inflight
        /\ transactionActive /\ pc[d] = "work" /\ unterminated = {d}

\* C18 (as claimed): an error raised to a finished call that had waited for
\* the slot is an error of the chain's own transaction, and the call has run
\* its own work inside its own transaction.
OwnOutcome ==
    \A c \in Chains :
        (Finished(c) /\ hist[c].waited) =>
            /\ result[c].kind = "raise" => result[c].err[2] = c
            /\ hist[c].begins = 1

\* C19 (as claimed): a COMMIT or ROLLBACK is in flight only for a transaction
\* that a successfully completed BEGIN has opened.
WellFormedStatements ==
    \A c \in Chains :
        pc[c] \in {"commit", "rollback"} => hist[c].failed # "BEGIN"

\* C20: at most one chain has its context flag Inside; that chain holds the
\* Active slot, which it acquired itself; and only the chain that owns the
\* open transaction is ever on the inline path.
OneInside ==
    /\ Cardinality({c \in Chains : isInTransaction[c]}) <= 1
    /\ \A c \in Chains :
        /\ isInTransaction[c] =>
                /\ transactionActive
                /\ owns[c]
                /\ transactionPromise.state = "pending"
                /\ \A d \in Chains \ {c} : ~owns[d]
        /\ depth[c] > 0 => (owns[c] /\ isInTransaction[c])

\* a chain is on the inline path of its own transaction, which it opened
\* after waiting, while another chain, whose flag is Outside, waits
OneInsideWitness ==
    \E c, d \in Chains :
        /\ depth[c] > 0 /\ isInTransaction[c] /\ hist[c].waited
        /\ pc[d] = "waiting" /\ ~isInTransaction[d]

\* C11: insert with a record of zero fields hands no statement to the database
\* handle, records one error-level log entry and returns undefined without
\* raising; with a non-empty record it hands over exactly one INSERT statement
\* with as many placeholders as the record has fields.
Placeholders(query) == Cardinality({i \in DOMAIN query : query[i] = "?"})

InsertContract ==
    (qcall.op = "insert" /\ qpc # "ready") =>
        IF qcall.rec = <<>>
        THEN /\ dbCalls = <<>>
             /\ Len(errLog) = 1
             /\ qpc = "done"
             /\ qout = QReturned(Undefined)
        ELSE /\ Len(dbCalls) = 1
             /\ dbCalls[1].method = "run"
             /\ dbCalls[1].query[1] = "INSERT "
             /\ Placeholders(dbCalls[1].query) = Len(qcall.rec)
             /\ Len(dbCalls[1].params) = Len(qcall.rec)

\* insert has returned for a record with no fields
InsertContractWitness ==
    qcall.op = "insert" /\ qcall.rec = <<>> /\ qpc = "done" /\ qout.kind = "return"

\* C12: getValue raises only when the driver call failed; on a result with no
\* rows it returns null, otherwise the first column of the first row.
GetValueContract ==
    (qcall.op = "getValue" /\ qpc = "done") =>
        /\ qout.kind = "raise" <=> errLog # <<>>
        /\ qout.kind = "return" =>
                qout.val = IF qcall.rows = <<>> THEN NullCell ELSE qcall.rows[1][1]

\* getValue has returned null for a result with no rows
GetValueContractWitness ==
    qcall.op = "getValue" /\ qcall.rows = <<>> /\ qpc = "done" /\ qout = QReturned(NullCell)

\* C13: getMap returns the mapping whose keys are the first columns of the
\* rows (as property keys) and which gives each key the second column of the
\* last row that has this key.
LastRowWith(rows, k) ==
    CHOOSE i \in DOMAIN rows :
        /\ ToKey(rows[i][1]) = k
        /\ \A j \in DOMAIN rows : ToKey(rows[j][1]) = k => j <= i

GetMapContract ==
    (qcall.op = "getMap" /\ qpc = "done" /\ qout.kind = "return") =>
        /\ DOMAIN qout.map = {ToKey(qcall.rows[i][1]) : i \in DOMAIN qcall.rows}
        /\ \A k \in DOMAIN qout.map :
                qout.map[k] = qcall.rows[LastRowWith(qcall.rows, k)][2]

\* getMap has returned for two rows with one key and different values
GetMapContractWitness ==
    /\ qcall.op = "getMap" /\ qpc = "done" /\ qout.kind = "return"
    /\ Len(qcall.rows) = 2
    /\ qcall.rows[1][1] = qcall.rows[2][1]
    /\ qcall.rows[1][2] # qcall.rows[2][2]
    /\ qout.map[ToKey(qcall.rows[1][1])] = qcall.rows[2][2]

TypeOK ==
    /\ transactionActive \in BOOLEAN
    /\ transactionPromise.state \in {"null", "pending", "fulfilled", "rejected"}
    /\ calls \in 0..MaxCalls
    /\ \A c \in Chains :
        /\ pc[c] \in {"idle", "waiting", "begin", "work", "commit", "rollback",
                      "settled", "stranded", "done", "query"}
        /\ depth[c] \in 0..MaxDepth
    /\ inflight \subseteq Chains
====
